---- MODULE Spec2Model ----
(***************************************************************************)
(* MetronInfo tag converter (metroninfoxml.py): the encoder                *)
(* _convert_metadata_to_xml, the decoder _convert_xml_to_metadata, and the *)
(* document they share, as a state machine over a caller's metadata record *)
(* and the XML document of an archive.                                     *)
(*                                                                         *)
(* Python strings are TLA+ strings, taken apart character by character     *)
(* with SubSeq.  Python's None is the sentinel None for strings and        *)
(* NoneInt for integers.  The alphabet of the inputs is ASCII, where       *)
(* str.casefold and str.lower agree.                                       *)
(***************************************************************************)
EXTENDS Integers, Sequences, FiniteSets, TLC

VARIABLES
    md,       \* the caller's GenericMetadata object, as it is after the last call
    arg,      \* the value that object had when the last encode was entered
    xml,      \* the document the archive holds under MetronInfo.xml (NoXml: b'')
    decoded,  \* the record returned by the last decode
    op,       \* the last operation: "open", "encode", "encode_raised", "decode",
              \* or the name of the adapter method called last
    idlog,    \* data-origin name -> issue id of the latest encode that carried one
    fresh,    \* TRUE while the document descends from a freshly built one
    supports, \* what archive.supports_files() returns
    ret,      \* what the last operation gave its caller, "raised" for an exception
    called,   \* the archive call that changes the archive, if the last operation made one
    faulty    \* TRUE when an archive call raised during the last operation

vars == <<md, arg, xml, decoded, op, idlog, fresh, supports, ret, called, faulty>>

----------------------------------------------------------------------------
(* Python values *)

None == "<None>"
NoneInt == -1

\* bool(x) of an optional string: None and '' are falsy
Truthy(s) == s # None /\ s # ""

\* bool(x) of an optional int: None and 0 are falsy
TruthyInt(n) == n # NoneInt /\ n # 0

----------------------------------------------------------------------------
(* str methods *)

Ch(s, i) == SubSeq(s, i, i)

UpperLetters == "ABCDEFGHIJKLMNOPQRSTUVWXYZ"
LowerLetters == "abcdefghijklmnopqrstuvwxyz"
Whitespace == {" ", "\n", "\t", "\r"}

ToLowerChar == [c \in {Ch(UpperLetters, i) : i \in 1..Len(UpperLetters)} |->
                  Ch(LowerLetters, CHOOSE i \in 1..Len(UpperLetters) : Ch(UpperLetters, i) = c)]
ToUpperChar == [c \in {Ch(LowerLetters, i) : i \in 1..Len(LowerLetters)} |->
                  Ch(UpperLetters, CHOOSE i \in 1..Len(LowerLetters) : Ch(LowerLetters, i) = c)]

lowerChar(c) == IF c \in DOMAIN ToLowerChar THEN ToLowerChar[c] ELSE c
upperChar(c) == IF c \in DOMAIN ToUpperChar THEN ToUpperChar[c] ELSE c

RECURSIVE lower(_)
lower(s) == IF s = "" THEN "" ELSE lowerChar(Ch(s, 1)) \o lower(SubSeq(s, 2, Len(s)))

RECURSIVE upper(_)
upper(s) == IF s = "" THEN "" ELSE upperChar(Ch(s, 1)) \o upper(SubSeq(s, 2, Len(s)))

\* str.casefold on ASCII text
casefold(s) == lower(s)

\* str.capitalize: first character upper-cased, the rest lower-cased
capitalize(s) == IF s = "" THEN "" ELSE upperChar(Ch(s, 1)) \o lower(SubSeq(s, 2, Len(s)))

RECURSIVE replace(_, _, _)
replace(s, old, new) ==
    IF s = "" THEN ""
    ELSE (IF Ch(s, 1) = old THEN new ELSE Ch(s, 1)) \o replace(SubSeq(s, 2, Len(s)), old, new)

RECURSIVE lstrip(_)
lstrip(s) == IF s # "" /\ Ch(s, 1) \in Whitespace THEN lstrip(SubSeq(s, 2, Len(s))) ELSE s

RECURSIVE rstrip(_)
rstrip(s) ==
    IF s # "" /\ Ch(s, Len(s)) \in Whitespace THEN rstrip(SubSeq(s, 1, Len(s) - 1)) ELSE s

strip(s) == rstrip(lstrip(s))

startswith(s, prefix) == Len(s) >= Len(prefix) /\ SubSeq(s, 1, Len(prefix)) = prefix

\* str.split(sep) for a one-character sep: always at least one segment
RECURSIVE splitFrom(_, _, _)
splitFrom(s, sep, cur) ==
    IF s = "" THEN <<cur>>
    ELSE IF Ch(s, 1) = sep THEN <<cur>> \o splitFrom(SubSeq(s, 2, Len(s)), sep, "")
    ELSE splitFrom(SubSeq(s, 2, Len(s)), sep, cur \o Ch(s, 1))

split(s, sep) == splitFrom(s, sep, "")

\* sep.join(parts)
RECURSIVE join(_, _)
join(sep, parts) ==
    IF parts = <<>> THEN ""
    ELSE IF Len(parts) = 1 THEN parts[1]
    ELSE parts[1] \o sep \o join(sep, Tail(parts))

\* f'{n:0w}' for n >= 0
RECURSIVE zfill(_, _)
zfill(s, w) == IF Len(s) >= w THEN s ELSE zfill("0" \o s, w)

\* x in list
InList(x, list) == \E i \in 1..Len(list) : list[i] = x

Range(seq) == {seq[i] : i \in 1..Len(seq)}

----------------------------------------------------------------------------
(* xml.etree.ElementTree elements: tag, text, tail, attrib, children *)

NoAttrib == [k \in {} |-> ""]

Element(tag) == [tag |-> tag, text |-> None, tail |-> None, attrib |-> NoAttrib, kids |-> <<>>]

\* the empty bytes b'': no document
NoXml == Element("")

\* Element.clear(): drops children and attributes, text and tail become None
clear_KeepChildren(e) == [e EXCEPT !.text = None, !.tail = None, !.attrib = NoAttrib]

\* Element.clear()
clear(e) == [e EXCEPT !.text = None, !.tail = None, !.attrib = NoAttrib, !.kids = <<>>]

\* dict.get(key, default)
DictGet(d, k, default) == IF k \in DOMAIN d THEN d[k] ELSE default

\* Element.find(tag) for a plain tag is not None
HasChild(e, tag) == \E i \in 1..Len(e.kids) : e.kids[i].tag = tag

\* child i is the first direct child with its tag: the one find returns
IsFirst(e, i) == \A j \in 1..(i - 1) : e.kids[j].tag # e.kids[i].tag

\* index of the first direct child with this tag
IndexOf(e, tag) == CHOOSE i \in 1..Len(e.kids) : e.kids[i].tag = tag /\ IsFirst(e, i)

\* Element.find(tag) for a plain tag: the first direct child, which the caller
\* guards with HasChild (find returns None otherwise)
find(e, tag) == e.kids[IndexOf(e, tag)]

\* add_element: a new last child, its text set only when truthy
add_element(element, sub_element, text, attribs) ==
    [element EXCEPT !.kids = Append(@,
        [Element(sub_element) EXCEPT !.text = IF Truthy(text) THEN text ELSE None,
                                     !.attrib = attribs])]

\* ET.SubElement(parent, tag) with the finished child
SubElement(parent, child) == [parent EXCEPT !.kids = Append(@, child)]


\* the order in which the encoder takes its handles
KnownTags ==
    << "IDS", "Number", "Series", "Stories", "CollectionTitle", "Summary", "Notes",
       "Prices", "GTIN", "Genres", "AgeRating", "Tags", "Arcs", "Characters", "Teams",
       "Locations", "Publisher", "CoverDate", "URLs", "Credits", "LastModified" >>

\* the tags get_or_create_element finds no child for: root.find(tag) is None
MissingTags(root) == SelectSeq(KnownTags, LAMBDA tag : ~HasChild(root, tag))

\* the 21 calls of get_or_create_element: add_path appends an empty element
\* for each tag the root has no child of, in the order of the calls
get_or_create_elements(root) ==
    LET missing == MissingTags(root)
    IN  [root EXCEPT !.kids = @ \o [i \in 1..Len(missing) |-> Element(missing[i])]]

XsiUri == "http://www.w3.org/2001/XMLSchema-instance"

\* the root of a new document
FreshRoot ==
    [Element("MetronInfo") EXCEPT !.attrib =
        [k \in {"xmlns:xsi", "xsi:noNamespaceSchemaLocation"} |->
            IF k = "xmlns:xsi" THEN XsiUri ELSE "MetronInfo.xsd"]]

\* iteration over a Python set: the order is the interpreter's (hash seed), one
\* of the two orders of a fixed enumeration
RECURSIVE Enum(_)
Enum(S) == IF S = {} THEN <<>> ELSE LET x == CHOOSE x \in S : TRUE IN <<x>> \o Enum(S \ {x})

Reverse(seq) == [i \in 1..Len(seq) |-> seq[Len(seq) + 1 - i]]

Iter(S, seed) == IF seed = 0 THEN Enum(S) ELSE Reverse(Enum(S))

\* for x in seq: add_element(element, tag, x)
RECURSIVE AddAll(_, _, _)
AddAll(element, tag, seq) ==
    IF seq = <<>> THEN element
    ELSE AddAll(add_element(element, tag, Head(seq), NoAttrib), tag, Tail(seq))

----------------------------------------------------------------------------
(* The tables of the encoder *)

ADDITIONAL_CREDITS ==
    << "plot", "story", "interviewer", "illustrator", "layouts", "embellisher",
       "ink assists", "color separations", "color assists", "color flats",
       "digital art technician", "gray tone", "consulting editor", "assistant editor",
       "associate editor", "group editor", "senior editor", "managing editor",
       "collection editor", "production", "designer", "logo design",
       "supervising editor", "executive editor", "editor in chief", "president",
       "publisher", "chief creative officer", "executive producer", "other" >>

\* the synonym tuples of comicapi's GenericMetadata, which the encoder and
\* _get_parseable_credits read
writer_synonyms == << "writer", "plotter", "scripter", "script" >>
penciller_synonyms == << "artist", "penciller", "penciler", "breakdowns", "pencils", "painting" >>
inker_synonyms == << "inker", "artist", "finishes", "inks", "painting" >>
colorist_synonyms == << "colorist", "colourist", "colorer", "colourer", "colors", "painting" >>
letterer_synonyms == << "letterer", "letters" >>
cover_synonyms == << "cover", "covers", "coverartist", "cover artist" >>
editor_synonyms == << "editor", "edits", "editing" >>
translator_synonyms == << "translator", "translation" >>

_get_parseable_credits ==
    writer_synonyms \o penciller_synonyms \o inker_synonyms \o colorist_synonyms
        \o letterer_synonyms \o cover_synonyms \o editor_synonyms \o translator_synonyms
        \o ADDITIONAL_CREDITS

supports_credit_role(role) == InList(casefold(role), _get_parseable_credits)

format_dict ==
    [k \in { "annual", "digital chapter", "graphic novel", "hardcover", "limited series",
             "omnibus", "trade paperback", "oneshot", "single issue" } |->
        CASE k = "annual" -> "Annual"
          [] k = "digital chapter" -> "Digital Chapter"
          [] k = "graphic novel" -> "Graphic Novel"
          [] k = "hardcover" -> "Hardcover"
          [] k = "limited series" -> "Limited Series"
          [] k = "omnibus" -> "Omnibus"
          [] k = "trade paperback" -> "Trade Paperback"
          [] k = "oneshot" -> "One-Shot"
          [] k = "single issue" -> "Single Issue"]

format_tpb == << "trade paperback", "collected edition", "tpb", "anthology", "trade paper back" >>
format_one_shot == << "oneshot", "one-shot", "one shot", "1-shot", "1 shot", "1shot" >>

mature_dict ==
    [k \in { "unknown", "everyone", "teen", "teen plus", "mature", "explicit", "adult" } |->
        CASE k = "unknown" -> "Unknown"
          [] k = "everyone" -> "Everyone"
          [] k = "teen" -> "Teen"
          [] k = "teen plus" -> "Teen Plus"
          [] k = "mature" -> "Mature"
          [] k = "explicit" -> "Explicit"
          [] k = "adult" -> "Adult"]

mature_everyone == << "everyone", "G", "all", "all ages", "a", "t" >>
mature_teen == << "teen", "teenager", "13+", "T+", "PG", "PSR" >>
mature_teenplus ==
    << "teen plus", "teenager plus", "15+", "parental advisory", "PG+", "PSR+", "ma15+" >>
mature_mature == << "mature", "17+", "explicit content", "m", "mature 17+" >>
mature_explicit == << "explicit", "R" >>
mature_adult == << "adult", "adults only", "adults only 18+", "18+", "R18+", "R+" >>

----------------------------------------------------------------------------
(* The normalisations of the encoder *)

\* the if/elif chain over credit.role.casefold()
CreditRole(role) ==
    LET r == casefold(role)
    IN  IF InList(r, writer_synonyms) THEN "Writer"
        ELSE IF InList(r, penciller_synonyms) THEN "Penciller"
        ELSE IF InList(r, inker_synonyms) THEN "Inker"
        ELSE IF InList(r, colorist_synonyms) THEN "Colorist"
        ELSE IF InList(r, letterer_synonyms) THEN "Letterer"
        ELSE IF InList(r, cover_synonyms) THEN "Cover"
        ELSE IF InList(r, editor_synonyms) THEN "Editor"
        ELSE IF InList(r, ADDITIONAL_CREDITS) THEN role
        ELSE "Other"

NormalizeFormat_NoLower(format) ==
    LET f1 == IF InList(format, format_tpb) THEN format_tpb[1]
              ELSE IF InList(format, format_one_shot) THEN format_one_shot[1]
              ELSE format
    IN  DictGet(format_dict, casefold(lower(f1)), "Single Issue")

\* the value md.format is given when series and format are truthy
NormalizeFormat(format) ==
    LET f == casefold(lower(format))
        f1 == IF InList(f, format_tpb) THEN format_tpb[1]
              ELSE IF InList(f, format_one_shot) THEN format_one_shot[1]
              ELSE format
    IN  DictGet(format_dict, casefold(lower(f1)), "Single Issue")

\* the value md.maturity_rating is given when it is truthy
NormalizeRating(rating) ==
    LET r == casefold(lower(rating))
        r1 == IF InList(r, mature_everyone) THEN mature_everyone[1]
              ELSE IF InList(r, mature_teen) THEN mature_teen[1]
              ELSE IF InList(r, mature_teenplus) THEN mature_teenplus[1]
              ELSE IF InList(r, mature_mature) THEN mature_mature[1]
              ELSE IF InList(r, mature_explicit) THEN mature_explicit[1]
              ELSE IF InList(r, mature_adult) THEN mature_adult[1]
              ELSE rating
    IN  DictGet(mature_dict, casefold(lower(r1)), "Unknown")

\* the year written to CoverDate
CoverYear(year) ==
    IF year < 50 THEN 2000 + year
    ELSE IF year < 100 THEN 1900 + year
    ELSE year

\* pub_date = f'{year:04}-{month:02}-{day:02}'
PubDate(year, month, day) ==
    LET d == IF TruthyInt(day) THEN day ELSE 1
        m == IF TruthyInt(month) THEN month ELSE 1
    IN  zfill(ToString(CoverYear(year)), 4) \o "-" \o zfill(ToString(m), 2)
            \o "-" \o zfill(ToString(d), 2)

\* md.year is truthy: the date is written
HasYear(m) == TruthyInt(m.year)

\* the record as the encoder leaves it: md.format, md.genres and
\* md.maturity_rating are assigned on the caller's object
FormatAfter(m) ==
    IF Truthy(m.series) /\ Truthy(m.format) THEN NormalizeFormat(m.format) ELSE m.format

GenresAfter(m) ==
    IF m.manga # None /\ startswith(casefold(m.manga), "yes")
    THEN m.genres \cup {"Manga"} ELSE m.genres

RatingAfter(m) ==
    IF Truthy(m.maturity_rating) THEN NormalizeRating(m.maturity_rating)
    ELSE m.maturity_rating

MdAfter(m) ==
    [m EXCEPT !.format = FormatAfter(m), !.genres = GenresAfter(m),
              !.maturity_rating = RatingAfter(m)]

----------------------------------------------------------------------------
(* The encoder, one operator per element it rewrites.  Each takes the     *)
(* element its handle refers to and gives the element after the rewrite.  *)

CreatorFolded_NoCasefold(person) == replace(person, " ", "_")

\* creator_folded: the key of the creators dict
CreatorFolded(person) == casefold(replace(person, " ", "_"))

\* creators: dict casefold_name -> (Name, [role]), in insertion order
RECURSIVE Creators(_, _)
Creators(credits, acc) ==
    IF credits = <<>> THEN acc
    ELSE LET credit == Head(credits)
             creator_folded == CreatorFolded(credit.person)
             credit_role == CreditRole(credit.role)
         IN  IF \E i \in 1..Len(acc) : acc[i].key = creator_folded
             THEN LET i == CHOOSE i \in 1..Len(acc) : acc[i].key = creator_folded
                  IN  Creators(Tail(credits),
                               [acc EXCEPT ![i].roles = Append(@, credit_role)])
             ELSE Creators(Tail(credits),
                           Append(acc, [key |-> creator_folded, person |-> credit.person,
                                        roles |-> <<credit_role>>]))

\* ele_role.text = role for each role
RECURSIVE RoleElements(_)
RoleElements(roles) ==
    IF roles = <<>> THEN <<>>
    ELSE <<[Element("Role") EXCEPT !.text = Head(roles)]>> \o RoleElements(Tail(roles))

add_credit(metron_credits, creator, roles) ==
    IF Truthy(creator)
    THEN LET ele_creator == add_element(Element("Credit"), "Creator", creator, NoAttrib)
             ele_credit ==
                 IF Len(roles) > 0
                 THEN SubElement(ele_creator,
                                 [Element("Roles") EXCEPT !.kids = RoleElements(roles)])
                 ELSE ele_creator
         IN  SubElement(metron_credits, ele_credit)
    ELSE metron_credits

RECURSIVE AddCredits(_, _)
AddCredits(metron_credits, creators) ==
    IF creators = <<>> THEN metron_credits
    ELSE AddCredits(add_credit(metron_credits, Head(creators).person, Head(creators).roles),
                    Tail(creators))

EncCredits(metron_credits, m) == AddCredits(clear(metron_credits), Creators(m.credits, <<>>))

\* m is the record with md.format already assigned
EncSeries(metron_series, m, seed) ==
    LET e0 == clear(metron_series)
        e1 == IF m.series_id # None THEN [e0 EXCEPT !.attrib = ("id" :> m.series_id) @@ @]
              ELSE e0
        e2 == add_element(e1, "Name", m.series, NoAttrib)
        e3 == IF TruthyInt(m.volume) THEN add_element(e2, "Volume", ToString(m.volume), NoAttrib)
              ELSE e2
        e4 == IF Truthy(m.format) THEN add_element(e3, "Format", m.format, NoAttrib) ELSE e3
        e5 == IF TruthyInt(m.issue_count)
              THEN add_element(e4, "IssueCount", ToString(m.issue_count), NoAttrib) ELSE e4
        e6 == IF TruthyInt(m.volume_count)
              THEN add_element(e5, "VolumeCount", ToString(m.volume_count), NoAttrib) ELSE e5
        e7 == IF m.series_aliases # {}
              THEN SubElement(e6, AddAll(Element("AlternativeNames"), "AlternativeName",
                                         Iter(m.series_aliases, seed)))
              ELSE e6
    IN  IF Truthy(m.series) THEN e7 ELSE e0

\* element.clear(), then element.text = value when the value is truthy
EncText(element, value) ==
    IF Truthy(value) THEN [clear(element) EXCEPT !.text = value] ELSE clear(element)

\* title.strip() for each title of md.title.split(';')
RECURSIVE StripAll(_)
StripAll(parts) == IF parts = <<>> THEN <<>> ELSE <<strip(Head(parts))>> \o StripAll(Tail(parts))

\* the title goes to CollectionTitle when md.format == 'Trade Paperback'
TitleIsCollection(m) == m.format = "Trade Paperback"

EncStories(metron_stories, m) ==
    IF Truthy(m.title) /\ ~TitleIsCollection(m)
    THEN AddAll(clear(metron_stories), "Story", StripAll(split(m.title, ";")))
    ELSE clear(metron_stories)

EncCollectionTitle(metron_title, m) ==
    IF Truthy(m.title) /\ TitleIsCollection(m)
    THEN [clear(metron_title) EXCEPT !.text = m.title]
    ELSE clear(metron_title)

\* g.capitalize() for each genre
RECURSIVE CapitalizeAll(_)
CapitalizeAll(genres) ==
    IF genres = <<>> THEN <<>> ELSE <<capitalize(Head(genres))>> \o CapitalizeAll(Tail(genres))

\* m is the record with 'Manga' already added to md.genres
EncGenres(metron_genres, m, seed) ==
    AddAll(clear(metron_genres), "Genre", CapitalizeAll(Iter(m.genres, seed)))

\* element.clear(), then one child per member
EncList(element, tag, seq) == AddAll(clear(element), tag, seq)

\* m is the record with md.maturity_rating already assigned
EncAgeRating(metron_age_rating, m) ==
    IF Truthy(m.maturity_rating)
    THEN [clear(metron_age_rating) EXCEPT !.text = m.maturity_rating]
    ELSE clear(metron_age_rating)

RECURSIVE ArcElements(_)
ArcElements(arcs) ==
    IF arcs = <<>> THEN <<>>
    ELSE <<add_element(Element("Arc"), "Name", Head(arcs), NoAttrib)>> \o ArcElements(Tail(arcs))

EncArcs(metron_arcs, m) == [clear(metron_arcs) EXCEPT !.kids = ArcElements(m.story_arcs)]

\* the scan of the ID children: the index of the first child that ends the loop,
\* by a match or by the KeyError of a child without a source attribute; 0 when
\* the loop runs to its end
IdScanStop(metron_ids, name) ==
    LET stops(i) == \/ "source" \notin DOMAIN metron_ids.kids[i].attrib
                    \/ metron_ids.kids[i].attrib["source"] = name
    IN  IF \E i \in 1..Len(metron_ids.kids) : stops(i)
        THEN CHOOSE i \in 1..Len(metron_ids.kids) :
                 stops(i) /\ \A j \in 1..(i - 1) : ~stops(j)
        ELSE 0

\* md.data_origin.name of a record without a data origin, or
\* current_id.attrib['source'] of an ID without that attribute, raises
IdsRaises(metron_ids, m) ==
    /\ Truthy(m.issue_id)
    /\ \/ m.data_origin = None
       \/ LET i == IdScanStop(metron_ids, m.data_origin)
          IN  i # 0 /\ "source" \notin DOMAIN metron_ids.kids[i].attrib

\* the attributes written to the ID of the record's data origin
PrimaryAttribs(attrib) == ("primary" :> "true") @@ attrib

EncIds_AlwaysAppend(metron_ids, m) ==
    IF ~Truthy(m.issue_id) \/ IdsRaises(metron_ids, m) THEN metron_ids
    ELSE add_element(metron_ids, "ID", m.issue_id,
                     PrimaryAttribs(("source" :> m.data_origin) @@ NoAttrib))

\* IDS is not cleared: the ID of the record's data origin is updated or added
EncIds(metron_ids, m) ==
    IF ~Truthy(m.issue_id) \/ IdsRaises(metron_ids, m) THEN metron_ids
    ELSE LET i == IdScanStop(metron_ids, m.data_origin)
         IN  IF i # 0
             THEN [metron_ids EXCEPT !.kids[i].text = m.issue_id,
                                     !.kids[i].attrib = PrimaryAttribs(@)]
             ELSE add_element(metron_ids, "ID", m.issue_id,
                              PrimaryAttribs(("source" :> m.data_origin) @@ NoAttrib))

EncPublisher(metron_publisher, m) ==
    LET e0 == clear(metron_publisher)
        e1 == add_element(e0, "Name", m.publisher, NoAttrib)
        e2 == IF Truthy(m.imprint) THEN add_element(e1, "Imprint", m.imprint, NoAttrib) ELSE e1
    IN  IF Truthy(m.publisher) THEN e2 ELSE e0

EncGtin(metron_gtin, m) ==
    IF Truthy(m.identifier) THEN add_element(clear(metron_gtin), "ISBN", m.identifier, NoAttrib)
    ELSE clear(metron_gtin)

EncCoverDate(metron_cover_date, m) ==
    IF HasYear(m)
    THEN [clear(metron_cover_date) EXCEPT !.text = PubDate(m.year, m.month, m.day)]
    ELSE clear(metron_cover_date)

\* str(md.price) of a whole-dollar float
PriceStr(price) == ToString(price) \o ".0"

EncPrices(metron_prices, m) ==
    IF TruthyInt(m.price)
    THEN add_element(clear(metron_prices), "Price", PriceStr(m.price), ("country" :> "US") @@ NoAttrib)
    ELSE clear(metron_prices)

\* metron_modified.text = datetime.datetime.now().isoformat()
EncModified(metron_modified, now) == [metron_modified EXCEPT !.text = now]

----------------------------------------------------------------------------
(* Serialisation *)

\* ET.indent's indentations[level]
RECURSIVE Spaces(_)
Spaces(level) == IF level = 0 THEN "" ELSE "  " \o Spaces(level - 1)

Indentation(level) == "\n" \o Spaces(level)

\* not s or not s.strip()
Blank(s) == s = None \/ strip(s) = ""

\* ET.indent's _indent_children(elem, level)
RECURSIVE IndentChildren(_, _)
IndentChildren(elem, level) ==
    [elem EXCEPT
        !.text = IF Blank(@) THEN Indentation(level + 1) ELSE @,
        !.kids = [i \in 1..Len(elem.kids) |->
            LET child == IF Len(elem.kids[i].kids) > 0
                         THEN IndentChildren(elem.kids[i], level + 1)
                         ELSE elem.kids[i]
                tail1 == IF Blank(child.tail) THEN Indentation(level + 1) ELSE child.tail
                tail2 == IF i = Len(elem.kids) /\ strip(tail1) = ""
                         THEN Indentation(level) ELSE tail1
            IN  [child EXCEPT !.tail = tail2]]]

\* ET.indent(root)
indent(tree) == IF Len(tree.kids) = 0 THEN tree ELSE IndentChildren(tree, 0)

\* ET.tostring(root): the bytes are represented by the tree they spell out; an
\* empty text or tail leaves no trace in them
RECURSIVE tostring(_)
tostring(e) ==
    [e EXCEPT !.text = IF @ = "" THEN None ELSE @,
              !.tail = IF @ = "" THEN None ELSE @,
              !.kids = [i \in 1..Len(e.kids) |-> tostring(e.kids[i])]]

\* the name the parser gives an attribute: the xsi prefix is expanded to its
\* namespace
ParsedAttribName(k) ==
    IF startswith(k, "xsi:") THEN "{" \o XsiUri \o "}" \o SubSeq(k, 5, Len(k)) ELSE k

\* the attributes after parsing: a namespace declaration is not an attribute
ParsedAttribs(attrib) ==
    LET kept == {k \in DOMAIN attrib : ~startswith(k, "xmlns:")}
    IN  [n \in {ParsedAttribName(k) : k \in kept} |->
            attrib[CHOOSE k \in kept : ParsedAttribName(k) = n]]

\* ET.fromstring(xml) of well-formed bytes
RECURSIVE fromstring(_)
fromstring(e) ==
    [e EXCEPT !.attrib = ParsedAttribs(@),
              !.kids = [i \in 1..Len(e.kids) |-> fromstring(e.kids[i])]]

----------------------------------------------------------------------------
(* _convert_metadata_to_xml and _bytes_from_metadata *)

\* the document the encoder works on: the parsed bytes, or a new root
WorkingRoot(bytes) == IF bytes # NoXml THEN fromstring(bytes) ELSE FreshRoot

\* what the encoder does through the handle of one group; m1, m2, m3 are the
\* record after the assignments of md.format, md.genres, md.maturity_rating
RewriteGroup(e, m, m1, m2, m3, now, seed) ==
    CASE e.tag = "Credits" -> EncCredits(e, m)
      [] e.tag = "Series" -> EncSeries(e, m1, seed)
      [] e.tag = "Number" -> EncText(e, m.issue)
      [] e.tag = "Stories" -> EncStories(e, m1)
      [] e.tag = "CollectionTitle" -> EncCollectionTitle(e, m1)
      [] e.tag = "Genres" -> EncGenres(e, m2, seed)
      [] e.tag = "Summary" -> EncText(e, m.description)
      [] e.tag = "URLs" -> EncList(e, "URL", m.web_links)
      [] e.tag = "AgeRating" -> EncAgeRating(e, m3)
      [] e.tag = "Tags" -> EncList(e, "Tag", Iter(m.tags, seed))
      [] e.tag = "Characters" -> EncList(e, "Character", Iter(m.characters, seed))
      [] e.tag = "Teams" -> EncList(e, "Team", Iter(m.teams, seed))
      [] e.tag = "Locations" -> EncList(e, "Location", Iter(m.locations, seed))
      [] e.tag = "Arcs" -> EncArcs(e, m)
      [] e.tag = "IDS" -> EncIds(e, m)
      [] e.tag = "Publisher" -> EncPublisher(e, m)
      [] e.tag = "GTIN" -> EncGtin(e, m)
      [] e.tag = "CoverDate" -> EncCoverDate(e, m)
      [] e.tag = "Notes" -> EncText(e, m.notes)
      [] e.tag = "Prices" -> EncPrices(e, m)
      [] e.tag = "LastModified" -> EncModified(e, now)
      [] OTHER -> e

\* the tree after every rewrite, before ET.indent; m is the record on entry.
\* A handle is the first child with its tag; every other child is left alone
EncodedTree(m, bytes, now, seed) ==
    LET m1 == [m EXCEPT !.format = FormatAfter(m)]
        m2 == [m1 EXCEPT !.genres = GenresAfter(m)]
        m3 == [m2 EXCEPT !.maturity_rating = RatingAfter(m)]
        root == get_or_create_elements(WorkingRoot(bytes))
    IN  [root EXCEPT !.kids = [i \in 1..Len(root.kids) |->
            IF IsFirst(root, i)
            THEN RewriteGroup(root.kids[i], m, m1, m2, m3, now, seed)
            ELSE root.kids[i]]]

\* the call raises: the scan of IDS is the one place a well-typed record and a
\* parsed document can make it
EncodeRaises(m, bytes) == IdsRaises(find(get_or_create_elements(WorkingRoot(bytes)), "IDS"), m)

_convert_metadata_to_xml(m, bytes, now, seed) == indent(EncodedTree(m, bytes, now, seed))

_bytes_from_metadata(m, bytes, now, seed) == tostring(_convert_metadata_to_xml(m, bytes, now, seed))

----------------------------------------------------------------------------
(* The decoder: _convert_xml_to_metadata *)

\* comicapi's utils.xlate on a text: None and blank text give None
xlate(data) == IF data = None \/ strip(data) = "" THEN None ELSE data

\* element.find('.//' + name): the first descendant with the tag in document
\* order, as a sequence of one element; <<>> is None
RECURSIVE find_descendant(_, _)
find_descendant(kids, name) ==
    IF kids = <<>> THEN <<>>
    ELSE IF Head(kids).tag = name THEN <<Head(kids)>>
    ELSE LET below == find_descendant(Head(kids).kids, name)
         IN  IF below # <<>> THEN below ELSE find_descendant(Tail(kids), name)

\* get_element(name): the search starts at root
get_element(root, name) == find_descendant(root.kids, name)

\* get_text(name, element): the search starts at root when element is None
get_text(root, name, element) ==
    LET start == IF element # <<>> THEN element[1] ELSE root
        tag == find_descendant(start.kids, name)
    IN  IF tag = <<>> THEN None ELSE tag[1].text

\* get_text(name) with no element
get_root_text(root, name) == get_text(root, name, <<>>)

\* the texts of the children, those that are None left out
RECURSIVE TextsOf(_)
TextsOf(kids) ==
    IF kids = <<>> THEN <<>>
    ELSE (IF Head(kids).text # None THEN <<Head(kids).text>> ELSE <<>>) \o TextsOf(Tail(kids))

\* the set built by set.add(child.text) over the children, None included
TextSet(element, default) ==
    IF element # <<>> THEN {element[1].kids[i].text : i \in 1..Len(element[1].kids)}
    ELSE default

\* arc_text = get_text('Name', arc) for each arc, None left out
RECURSIVE ArcNames(_, _)
ArcNames(root, arcs) ==
    IF arcs = <<>> THEN <<>>
    ELSE LET arc_text == get_text(root, "Name", <<Head(arcs)>>)
         IN  (IF arc_text # None THEN <<arc_text>> ELSE <<>>) \o ArcNames(root, Tail(arcs))

DecodedTitle_NoStories(root) == xlate(get_root_text(root, "CollectionTitle"))

\* md.title: CollectionTitle, else the Story texts joined by ';'
DecodedTitle(root) ==
    LET m_title == xlate(get_root_text(root, "CollectionTitle"))
        m_stories == get_element(root, "Stories")
    IN  IF m_title = None /\ m_stories # <<>>
        THEN join(";", TextsOf(m_stories[1].kids))
        ELSE m_title

\* the loop over the GTIN children: ISBN wins, else the first child
RECURSIVE DecodedIdentifier(_, _)
DecodedIdentifier(idents, identifier) ==
    IF idents = <<>> THEN identifier
    ELSE DecodedIdentifier(Tail(idents),
             IF Head(idents).tag = "ISBN" THEN Head(idents).text
             ELSE IF identifier = None THEN Head(idents).text
             ELSE identifier)

\* the last US price of several
RECURSIVE LastUsPrice(_, _)
LastUsPrice(prices, price) ==
    IF prices = <<>> THEN price
    ELSE LastUsPrice(Tail(prices),
             IF Head(prices).attrib["country"] = "US" THEN Head(prices).text ELSE price)

DecodedPrice(m_prices) ==
    LET p == IF m_prices # <<>> /\ Len(m_prices[1].kids) > 1
             THEN LastUsPrice(m_prices[1].kids, None) ELSE None
    IN  IF m_prices # <<>> /\ p = None /\ Len(m_prices[1].kids) = 1
        THEN m_prices[1].kids[1].text ELSE p

\* GenericMetadata(): the fields the decoder assigns without comicapi's date,
\* URL, number and credit helpers
DefaultDecoded ==
    [ series |-> None, issue |-> None, issue_count |-> None, title |-> None, volume |-> None,
      genres |-> {}, description |-> None, notes |-> None, story_arcs |-> <<>>,
      publisher |-> None, imprint |-> None, identifier |-> None, price |-> None,
      language |-> None, format |-> None, maturity_rating |-> None,
      characters |-> {}, teams |-> {}, locations |-> {}, tags |-> {}, is_empty |-> TRUE ]

\* the decoder raises: the root is not MetronInfo, or one of several Price
\* children has no country attribute
DecodeRaises(root) ==
    \/ root.tag # "MetronInfo"
    \/ LET m_prices == get_element(root, "Prices")
       IN  /\ m_prices # <<>>
           /\ Len(m_prices[1].kids) > 1
           /\ \E i \in 1..Len(m_prices[1].kids) :
                  "country" \notin DOMAIN m_prices[1].kids[i].attrib

_convert_xml_to_metadata(root) ==
    LET m_series == get_element(root, "Series")
        m_arcs == get_element(root, "Arcs")
        m_publisher == get_element(root, "Publisher")
        m_gtin == get_element(root, "GTIN")
    IN  [ series |-> xlate(get_text(root, "Name", m_series)),
          issue |-> xlate(get_root_text(root, "Number")),
          issue_count |-> xlate(get_text(root, "IssueCount", m_series)),
          title |-> DecodedTitle(root),
          volume |-> xlate(get_text(root, "Volume", m_series)),
          genres |-> TextSet(get_element(root, "Genres"), {}),
          description |-> xlate(get_root_text(root, "Summary")),
          notes |-> xlate(get_root_text(root, "Notes")),
          story_arcs |-> IF m_arcs # <<>> THEN ArcNames(root, m_arcs[1].kids) ELSE <<>>,
          publisher |-> xlate(get_text(root, "Name", m_publisher)),
          imprint |-> xlate(get_text(root, "Imprint", m_publisher)),
          identifier |-> IF m_gtin # <<>> THEN DecodedIdentifier(m_gtin[1].kids, None)
                         ELSE None,
          price |-> DecodedPrice(get_element(root, "Prices")),
          language |-> IF m_series # <<>>
                       THEN DictGet(m_series[1].attrib, "lang", None) ELSE None,
          format |-> xlate(get_text(root, "Format", m_series)),
          maturity_rating |-> xlate(get_root_text(root, "AgeRating")),
          characters |-> TextSet(get_element(root, "Characters"), {}),
          teams |-> TextSet(get_element(root, "Teams"), {}),
          locations |-> TextSet(get_element(root, "Locations"), {}),
          tags |-> TextSet(get_element(root, "Tags"), {}),
          is_empty |-> FALSE ]

\* _metadata_from_bytes
_metadata_from_bytes(bytes) == _convert_xml_to_metadata(fromstring(bytes))

----------------------------------------------------------------------------
(* The inputs: metadata records and the documents an archive may hold *)

MaxSeq == 2       \* longest credits list and story-arc list of a record
MaxSet == 2       \* largest genre, tag, character, team and location set
MaxIssueId == 2   \* issue ids are "1" .. "MaxIssueId"

\* GenericMetadata(): every field unset
DefaultMd ==
    [ credits |-> <<>>, series |-> None, series_id |-> None, volume |-> NoneInt,
      format |-> None, issue_count |-> NoneInt, volume_count |-> NoneInt,
      series_aliases |-> {}, issue |-> None, title |-> None, manga |-> None,
      genres |-> {}, description |-> None, web_links |-> <<>>, maturity_rating |-> None,
      tags |-> {}, characters |-> {}, teams |-> {}, locations |-> {}, story_arcs |-> <<>>,
      issue_id |-> None, data_origin |-> None, publisher |-> None, imprint |-> None,
      identifier |-> None, year |-> NoneInt, month |-> NoneInt, day |-> NoneInt,
      notes |-> None, price |-> NoneInt ]

\* a text as given, in lower case and in upper case
Cases(s) == {s, lower(s), upper(s)}

SeqsUpTo(S, n) == UNION {[1..k -> S] : k \in 0..n}
SetsUpTo(S, n) == {T \in SUBSET S : Cardinality(T) <= n}

RatingAliases ==
    Range(mature_everyone) \cup Range(mature_teen) \cup Range(mature_teenplus)
        \cup Range(mature_mature) \cup Range(mature_explicit) \cup Range(mature_adult)
RatingNames == {mature_dict[k] : k \in DOMAIN mature_dict}
RatingInputs ==
    UNION {Cases(a) : a \in RatingAliases \cup RatingNames} \cup {"", "PG-13", "kids"}

FormatAliases == Range(format_tpb) \cup Range(format_one_shot) \cup DOMAIN format_dict
FormatNames == {format_dict[k] : k \in DOMAIN format_dict}
FormatInputs ==
    UNION {Cases(a) : a \in FormatAliases \cup FormatNames \cup {"TPB"}} \cup {"manga", "trade"}

RoleInputs ==
    UNION {Cases(a) : a \in Range(_get_parseable_credits)}
        \cup {"Other", "Plot", "foo", "writers", "cover artist "}

Titles == {"One", "One; Two", " A ;;B "}
Persons == {"Jane Doe", "jane doe", "jane_doe", ""}
Roles == {"Writer", "Penciller"}
GenrePool == {"sci-fi", "Horror", "Manga"}
NamePool == {"Ann", "bob", "The Cave"}
ArcPool == {"Arc One", "arc two"}
Years == {0, 5, 49, 50, 55, 99, 100, 1999}
Months == {NoneInt, 0, 3, 12}
Days == {NoneInt, 7, 31}
Sources == {"Comic Vine", "Metron"}
IssueIds == {ToString(i) : i \in 1..MaxIssueId}

\* datetime.datetime.now().isoformat() at the time of an encode
Now == {"2024-05-01T10:00:00.000001", "2024-05-01T10:00:07.250000"}

RatingRecords == {[DefaultMd EXCEPT !.maturity_rating = r] : r \in RatingInputs}

FormatRecords ==
    {[DefaultMd EXCEPT !.series = "Saga", !.format = f] : f \in FormatInputs}
        \cup {[DefaultMd EXCEPT !.series = s, !.format = f, !.title = t] :
                s \in {None, "", "Saga"},
                f \in {None, "TPB", "Trade Paperback", "collected edition", "Annual", "weird"},
                t \in Titles \cup {None}}

RoleRecords ==
    {[DefaultMd EXCEPT !.credits = <<[person |-> "Jane Doe", role |-> r]>>] : r \in RoleInputs}

CreditRecords ==
    {[DefaultMd EXCEPT !.credits = c] : c \in SeqsUpTo([person : Persons, role : Roles], MaxSeq)}

DateRecords ==
    {[DefaultMd EXCEPT !.year = y, !.month = m, !.day = d] :
        y \in Years \cup {NoneInt}, m \in Months, d \in Days}

TextValues == {"", "X y", " pad "}

TextRecords ==
    {[DefaultMd EXCEPT !.series = v] : v \in TextValues}
        \cup {[DefaultMd EXCEPT !.issue = v] : v \in TextValues}
        \cup {[DefaultMd EXCEPT !.description = v] : v \in TextValues}
        \cup {[DefaultMd EXCEPT !.notes = v] : v \in TextValues}
        \cup {[DefaultMd EXCEPT !.publisher = p, !.imprint = i] :
                p \in {None, "Marvel"}, i \in {None, "Icon"}}

SetRecords ==
    {[DefaultMd EXCEPT !.genres = g, !.manga = m] :
        g \in SetsUpTo(GenrePool, MaxSet), m \in {None, "Yes", "YES (right to left)", "No"}}
        \cup {[DefaultMd EXCEPT !.tags = t] : t \in SetsUpTo(NamePool, MaxSet)}
        \cup {[DefaultMd EXCEPT !.characters = t] : t \in SetsUpTo(NamePool, MaxSet)}
        \cup {[DefaultMd EXCEPT !.teams = t] : t \in SetsUpTo(NamePool, MaxSet)}
        \cup {[DefaultMd EXCEPT !.locations = t] : t \in SetsUpTo(NamePool, MaxSet)}
        \cup {[DefaultMd EXCEPT !.story_arcs = a] : a \in SeqsUpTo(ArcPool, MaxSeq)}

IdRecords ==
    {[DefaultMd EXCEPT !.issue_id = i, !.data_origin = o] :
        i \in IssueIds \cup {""}, o \in Sources \cup {None}}

\* a record with a value in every group
FullRecord ==
    [ credits |-> <<[person |-> "Jane Doe", role |-> "Writer"],
                    [person |-> "Bo Lee", role |-> "colors"]>>,
      series |-> "Saga", series_id |-> "4050", volume |-> 2, format |-> "tpb",
      issue_count |-> 6, volume_count |-> 3, series_aliases |-> {"The Saga"},
      issue |-> "1", title |-> "Book One", manga |-> "No", genres |-> {"fantasy"},
      description |-> "A tale.", web_links |-> <<"https://example.org/saga/1">>,
      maturity_rating |-> "17+", tags |-> {"space"}, characters |-> {"Ann"},
      teams |-> {"The Will"}, locations |-> {"Cleave"}, story_arcs |-> <<"Arc One">>,
      issue_id |-> "7", data_origin |-> "Metron", publisher |-> "Image",
      imprint |-> "Icon", identifier |-> "9781607066019", year |-> 12, month |-> 3,
      day |-> NoneInt, notes |-> "Tagged.", price |-> 10 ]

Records ==
    RatingRecords \cup FormatRecords \cup RoleRecords \cup CreditRecords \cup DateRecords
        \cup TextRecords \cup SetRecords \cup IdRecords \cup {FullRecord}

\* the records written again and again onto one document
SeqRecords == IdRecords \cup {DefaultMd, FullRecord}

\* a document this encoder wrote earlier
ProducedDoc == _bytes_from_metadata(FullRecord, NoXml, "2023-01-01T00:00:00", 0)

Leaf(tag, text, attrib) == [Element(tag) EXCEPT !.text = text, !.attrib = attrib]
Node(tag, kids) == [Element(tag) EXCEPT !.kids = kids]

\* a MetronInfo document of another writer: groups in another order, some
\* missing, an element the encoder does not know, text and attributes on
\* group elements
ForeignDoc ==
    tostring(Node("MetronInfo", <<
        Node("Publisher", <<Leaf("Name", "Old House", NoAttrib),
                            Leaf("Imprint", "Old Imprint", NoAttrib)>>),
        Node("Arcs", <<Node("Arc", <<Leaf("Name", "Old Arc", NoAttrib)>>)>>),
        Node("IDS", <<Leaf("ID", "900", ("source" :> "Comic Vine") @@ ("primary" :> "true")),
                      Leaf("ID", "901", "source" :> "Metron")>>),
        [Node("Genres", <<Leaf("Genre", "Old", NoAttrib)>>) EXCEPT !.attrib = "x" :> "1"],
        Leaf("AgeRating", "Teen", NoAttrib),
        Node("Credits", <<Node("Credit", <<Leaf("Creator", "Old Hand", NoAttrib),
                          Node("Roles", <<Leaf("Role", "Writer", NoAttrib)>>)>>)>>),
        Node("Stories", <<Leaf("Story", "Old Story", NoAttrib)>>),
        Leaf("CollectionTitle", "Old Collection", NoAttrib),
        Leaf("CoverDate", "1990-01-01", NoAttrib),
        Node("Prices", <<Leaf("Price", "1.0", "country" :> "GB")>>),
        Node("Pages", <<Leaf("Page", None, "image" :> "0")>>),
        Leaf("Summary", "Old summary", NoAttrib)
    >>))

\* a document whose ID has no source attribute
LegacyDoc ==
    tostring(Node("MetronInfo", <<
        Node("IDS", <<Leaf("ID", "5", NoAttrib)>>),
        Leaf("Notes", "Old notes", NoAttrib),
        Node("Tags", <<Leaf("Tag", "old", NoAttrib)>>)
    >>))

ExistingDocs == {ProducedDoc, ForeignDoc, LegacyDoc}

\* the hash seeds that can tell: one order when no set has two members
Seeds(r) ==
    IF \E S \in {r.genres, r.tags, r.characters, r.teams, r.locations, r.series_aliases} :
           Cardinality(S) > 1
    THEN {0, 1} ELSE {0}

----------------------------------------------------------------------------
(* The state machine *)

NoIds == [s \in {} |-> ""]

Init ==
    /\ xml \in {NoXml} \cup ExistingDocs
    /\ fresh = (xml = NoXml)
    /\ md = DefaultMd
    /\ arg = DefaultMd
    /\ decoded = DefaultDecoded
    /\ op = "open"
    /\ idlog = NoIds
    /\ supports = TRUE
    /\ ret = "none"
    /\ called = "none"
    /\ faulty = FALSE

\* another archive: it holds no MetronInfo.xml, or an existing document
OpenArchive ==
    /\ xml' \in {NoXml} \cup ExistingDocs
    /\ fresh' = (xml' = NoXml)
    /\ md' = DefaultMd
    /\ arg' = DefaultMd
    /\ decoded' = DefaultDecoded
    /\ op' = "open"
    /\ idlog' = NoIds
    /\ supports' = TRUE
    /\ ret' = "none"
    /\ called' = "none"
    /\ faulty' = FALSE

\* _bytes_from_metadata(r, xml), the result stored as the archive's document;
\* r is the caller's object, which the encoder assigns to
Encode(r, now, seed) ==
    /\ arg' = r
    /\ md' = MdAfter(r)
    /\ decoded' = DefaultDecoded
    /\ fresh' = fresh
    /\ UNCHANGED <<supports, faulty>>
    /\ IF EncodeRaises(r, xml)
       THEN /\ xml' = xml
            /\ op' = "encode_raised"
            /\ ret' = "false"
            /\ called' = "none"
            /\ idlog' = idlog
       ELSE /\ xml' = _bytes_from_metadata(r, xml, now, seed)
            /\ op' = "encode"
            /\ ret' = "true"
            /\ called' = "write_file"
            /\ idlog' = IF Truthy(r.issue_id) THEN (r.data_origin :> r.issue_id) @@ idlog
                        ELSE idlog

\* the first write to an archive, with any record
EncodeFirst ==
    /\ op = "open"
    /\ \E r \in Records, now \in Now : \E seed \in Seeds(r) : Encode(r, now, seed)

\* a write to an archive written before or not, with the caller's object as
\* it is or with another record
EncodeNext ==
    \E r \in SeqRecords \cup {md}, now \in Now : \E seed \in Seeds(r) : Encode(r, now, seed)

\* _metadata_from_bytes(xml) of a stored document
Decode ==
    /\ xml # NoXml
    /\ op \in {"open", "encode"}
    /\ IF DecodeRaises(fromstring(xml))
       THEN decoded' = DefaultDecoded /\ op' = "decode_raised" /\ ret' = "default"
       ELSE decoded' = _metadata_from_bytes(xml) /\ op' = "decode" /\ ret' = "record"
    /\ called' = "none"
    /\ UNCHANGED <<md, arg, xml, idlog, fresh, supports, faulty>>

Next == OpenArchive \/ EncodeFirst \/ Decode

Spec == Init /\ [][Next]_vars

NextSeq == OpenArchive \/ EncodeNext \/ Decode

SpecSeq == Init /\ [][NextSeq]_vars

----------------------------------------------------------------------------
(* The adapter methods over an archive whose calls may raise *)

\* stored bytes with another root, and stored bytes that are not XML
ComicDoc == tostring(Node("ComicInfo", <<Leaf("Series", "Saga", NoAttrib)>>))
Malformed == [Element("") EXCEPT !.text = "<MetronInfo><Series>"]

\* ET.fromstring raises ET.ParseError: no bytes, or bytes that are not XML
ParseError(string) == string.tag = ""

_validate_bytes_AnyRoot(string) == ~ParseError(string)

\* _validate_bytes
_validate_bytes(string) ==
    IF ParseError(string) THEN FALSE ELSE fromstring(string).tag = "MetronInfo"

\* the archive calls; read_file_again is the read_file call a method makes
\* itself, after the one has_tags made
ArchiveCalls ==
    { "supports_files", "get_filename_list", "read_file", "read_file_again",
      "write_file", "remove_file", "name" }

\* the calls that raise during one operation: none, or one of them
Failures == {{}} \cup {{c} : c \in ArchiveCalls}

has_tags_NoValidate(bytes, sup, raising) ==
    /\ "supports_files" \notin raising
    /\ sup
    /\ "get_filename_list" \notin raising
    /\ bytes # NoXml

\* has_tags: an exception of any call gives False; a file that is not
\* listed is the stored bytes NoXml
has_tags(bytes, sup, raising) ==
    /\ "supports_files" \notin raising
    /\ sup
    /\ "get_filename_list" \notin raising
    /\ bytes # NoXml
    /\ "read_file" \notin raising
    /\ _validate_bytes(bytes)

\* read_tags: the record returned
read_tags(bytes, sup, raising) ==
    IF /\ has_tags(bytes, sup, raising)
       /\ "read_file_again" \notin raising
       /\ _validate_bytes(bytes)
       /\ ~DecodeRaises(fromstring(bytes))
    THEN _metadata_from_bytes(bytes)
    ELSE DefaultDecoded

\* read_raw_tags: a text, or the empty string
read_raw_tags(bytes, sup, raising) ==
    IF has_tags(bytes, sup, raising) /\ "read_file_again" \notin raising
    THEN "text" ELSE "empty"

Bool(b) == IF b THEN "true" ELSE "false"

\* the records written through the adapter
ArchiveRecords ==
    { DefaultMd, FullRecord, [DefaultMd EXCEPT !.issue_id = "1"] }

StoredBytes == {NoXml, ComicDoc, Malformed} \cup ExistingDocs

InitArchive ==
    /\ xml \in StoredBytes
    /\ supports \in BOOLEAN
    /\ fresh = (xml = NoXml)
    /\ md = DefaultMd
    /\ arg = DefaultMd
    /\ decoded = DefaultDecoded
    /\ op = "open"
    /\ idlog = NoIds
    /\ ret = "none"
    /\ called = "none"
    /\ faulty = FALSE

\* another archive
OpenAnyArchive ==
    /\ xml' \in StoredBytes
    /\ supports' \in BOOLEAN
    /\ fresh' = (xml' = NoXml)
    /\ md' = DefaultMd
    /\ arg' = DefaultMd
    /\ decoded' = DefaultDecoded
    /\ op' = "open"
    /\ idlog' = NoIds
    /\ ret' = "none"
    /\ called' = "none"
    /\ faulty' = FALSE

HasTags ==
    \E raising \in Failures :
        /\ op' = "has_tags"
        /\ ret' = Bool(has_tags(xml, supports, raising))
        /\ called' = "none"
        /\ faulty' = (raising # {})
        /\ decoded' = DefaultDecoded
        /\ UNCHANGED <<md, arg, xml, idlog, fresh, supports>>

ReadTags ==
    \E raising \in Failures :
        /\ op' = "read_tags"
        /\ decoded' = read_tags(xml, supports, raising)
        /\ ret' = IF decoded'.is_empty THEN "default" ELSE "record"
        /\ called' = "none"
        /\ faulty' = (raising # {})
        /\ UNCHANGED <<md, arg, xml, idlog, fresh, supports>>

ReadRawTags ==
    \E raising \in Failures :
        /\ op' = "read_raw_tags"
        /\ ret' = read_raw_tags(xml, supports, raising)
        /\ called' = "none"
        /\ faulty' = (raising # {})
        /\ decoded' = DefaultDecoded
        /\ UNCHANGED <<md, arg, xml, idlog, fresh, supports>>

\* remove_tags: has_tags(archive) and archive.remove_file(self.file);
\* removed is what remove_file returns when it does not raise
RemoveTags ==
    \E raising \in Failures, removed \in BOOLEAN :
        /\ op' = "remove_tags"
        /\ faulty' = (raising # {})
        /\ decoded' = DefaultDecoded
        /\ UNCHANGED <<md, arg, supports>>
        /\ IF ~has_tags(xml, supports, raising)
           THEN ret' = "false" /\ called' = "none" /\ UNCHANGED <<xml, idlog, fresh>>
           ELSE /\ called' = "remove_file"
                /\ IF "remove_file" \in raising
                   THEN ret' = "raised" /\ UNCHANGED <<xml, idlog, fresh>>
                   ELSE IF removed
                   THEN ret' = "true" /\ xml' = NoXml /\ fresh' = TRUE /\ idlog' = NoIds
                   ELSE ret' = "false" /\ UNCHANGED <<xml, idlog, fresh>>

\* write_tags; written is what write_file returns when it does not raise
WriteTags ==
    \E r \in ArchiveRecords, now \in {CHOOSE n \in Now : TRUE},
       raising \in Failures, written \in BOOLEAN :
        LET has == has_tags(xml, supports, raising)
            input == IF has THEN xml ELSE NoXml
            entered == /\ "supports_files" \notin raising
                       /\ supports
                       /\ ~(has /\ "read_file_again" \in raising)
        IN  /\ op' = "write_tags"
            /\ faulty' = (raising # {})
            /\ decoded' = DefaultDecoded
            /\ supports' = supports
            /\ arg' = r
            /\ IF ~entered
               THEN /\ md' = r
                    /\ ret' = IF "supports_files" \in raising THEN "raised"
                              ELSE IF ~supports /\ "name" \in raising THEN "raised"
                              ELSE "false"
                    /\ called' = "none"
                    /\ UNCHANGED <<xml, fresh, idlog>>
               ELSE /\ md' = MdAfter(r)
                    /\ IF EncodeRaises(r, input)
                       THEN ret' = "false" /\ called' = "none" /\ UNCHANGED <<xml, fresh, idlog>>
                       ELSE /\ called' = "write_file"
                            /\ IF "write_file" \in raising \/ ~written
                               THEN ret' = "false" /\ UNCHANGED <<xml, fresh, idlog>>
                               ELSE /\ ret' = "true"
                                    /\ xml' = _bytes_from_metadata(r, input, now, 0)
                                    /\ fresh' = (fresh \/ input = NoXml)
                                    /\ idlog' =
                                         (IF Truthy(r.issue_id)
                                          THEN r.data_origin :> r.issue_id ELSE NoIds)
                                             @@ (IF input = NoXml THEN NoIds ELSE idlog)

NextArchive ==
    OpenAnyArchive \/ HasTags \/ ReadTags \/ ReadRawTags \/ RemoveTags \/ WriteTags

SpecArchive == InitArchive /\ [][NextArchive]_vars

----------------------------------------------------------------------------
(* Reading the stored document *)

\* the last operation was an encode that returned
Encoded == op = "encode"

\* the element of a group in the stored document
Group(tag) == find(xml, tag)

\* the texts of the children of an element, in order
KidTexts(e) == [i \in 1..Len(e.kids) |-> e.kids[i].text]

\* no children, no text, no attributes
IsEmptyElement(e) == e.kids = <<>> /\ e.text = None /\ e.attrib = NoAttrib

\* two texts are the same text whatever the letter case
SameFolded(a, b) == lower(a) = lower(b)

----------------------------------------------------------------------------
(* C1: the AgeRating text of an encoded record with a maturity rating is   *)
(* the canonical name of the synonym group that holds the rating in any    *)
(* letter case, the canonical name itself when the rating is one, and      *)
(* Unknown when it matches neither.                                        *)

RatingGroups ==
    { [name |-> "Everyone", aliases |-> mature_everyone],
      [name |-> "Teen", aliases |-> mature_teen],
      [name |-> "Teen Plus", aliases |-> mature_teenplus],
      [name |-> "Mature", aliases |-> mature_mature],
      [name |-> "Explicit", aliases |-> mature_explicit],
      [name |-> "Adult", aliases |-> mature_adult] }

RatingGroupsOf(rating) ==
    {g \in RatingGroups : \E a \in Range(g.aliases) : SameFolded(a, rating)}

ClaimedRating(rating) ==
    IF RatingGroupsOf(rating) # {} THEN (CHOOSE g \in RatingGroupsOf(rating) : TRUE).name
    ELSE IF \E n \in {"Unknown", "Everyone", "Teen", "Teen Plus", "Mature", "Explicit", "Adult"} :
                SameFolded(n, rating)
    THEN CHOOSE n \in {"Unknown", "Everyone", "Teen", "Teen Plus", "Mature", "Explicit", "Adult"} :
                SameFolded(n, rating)
    ELSE "Unknown"

C1_RatingNormalized ==
    (Encoded /\ Truthy(arg.maturity_rating))
        => Group("AgeRating").text = ClaimedRating(arg.maturity_rating)

----------------------------------------------------------------------------
(* C2: with a series and a format, the Series/Format text is one of the    *)
(* nine canonical names; a trade-paperback synonym in any letter case      *)
(* gives Trade Paperback, a one-shot synonym gives One-Shot, and a format  *)
(* that matches nothing gives Single Issue.                                *)

NineFormats ==
    { "Annual", "Digital Chapter", "Graphic Novel", "Hardcover", "Limited Series",
      "Omnibus", "One-Shot", "Single Issue", "Trade Paperback" }
TpbSynonyms ==
    { "TPB", "tpb", "Trade Paperback", "collected edition", "anthology", "trade paper back" }
OneShotSynonyms == { "oneshot", "one-shot", "one shot", "1-shot", "1 shot", "1shot" }

IsTpb(format) == \E x \in TpbSynonyms : SameFolded(x, format)
IsOneShot(format) == \E x \in OneShotSynonyms : SameFolded(x, format)
IsCanonicalFormat(format) == \E x \in NineFormats : SameFolded(x, format)

FormatText == find(Group("Series"), "Format").text

C2_FormatNormalized ==
    (Encoded /\ Truthy(arg.series) /\ Truthy(arg.format)) =>
        /\ HasChild(Group("Series"), "Format")
        /\ FormatText \in NineFormats
        /\ IsTpb(arg.format) => FormatText = "Trade Paperback"
        /\ IsOneShot(arg.format) => FormatText = "One-Shot"
        /\ (~IsTpb(arg.format) /\ ~IsOneShot(arg.format) /\ ~IsCanonicalFormat(arg.format))
               => FormatText = "Single Issue"

C2_Witness ==
    /\ Encoded
    /\ arg.series = "Saga"
    /\ arg.format = "TPB"
    /\ FormatText = "Trade Paperback"

----------------------------------------------------------------------------
(* C3: with a title, a format of the trade-paperback group puts the title  *)
(* in CollectionTitle and leaves Stories without a Story; any other format *)
(* leaves CollectionTitle empty and writes one Story per ';'-separated     *)
(* segment, trimmed, in order.                                             *)

\* the Story texts of a title: an empty segment has no text
ClaimedStories(title) ==
    LET segs == split(title, ";")
    IN  [i \in 1..Len(segs) |-> IF strip(segs[i]) = "" THEN None ELSE strip(segs[i])]

C3_TitlePlacement ==
    (Encoded /\ Truthy(arg.title)) =>
        IF Truthy(arg.format) /\ IsTpb(arg.format)
        THEN /\ Group("CollectionTitle").text = arg.title
             /\ Group("Stories").kids = <<>>
        ELSE /\ Group("CollectionTitle").text = None
             /\ KidTexts(Group("Stories")) = ClaimedStories(arg.title)
             /\ \A i \in 1..Len(Group("Stories").kids) : Group("Stories").kids[i].tag = "Story"

----------------------------------------------------------------------------
(* C4: Credits holds one Credit per distinct fold key among the credits    *)
(* with a person, in order of first appearance, with the first spelling as *)
(* Creator and one Role per credit of that key in input order; nothing of  *)
(* an earlier document's Credits is left.                                  *)

ClaimedKey(person) == lower(replace(person, " ", "_"))

WithPerson(credits) == SelectSeq(credits, LAMBDA c : c.person # "")

\* the credits that are the first of their key
FirstOfKey(credits) ==
    LET c == WithPerson(credits)
    IN  SelectSeq([i \in 1..Len(c) |-> [i |-> i, person |-> c[i].person]],
                  LAMBDA x : \A j \in 1..(x.i - 1) :
                                 ClaimedKey(c[j].person) # ClaimedKey(x.person))

RolesOfKey(credits, key) ==
    SelectSeq(WithPerson(credits), LAMBDA c : ClaimedKey(c.person) = key)

C4_CreditsMerged ==
    Encoded =>
        LET firsts == FirstOfKey(arg.credits)
            written == Group("Credits").kids
        IN  /\ Len(written) = Len(firsts)
            /\ \A k \in 1..Len(written) :
                 LET mine == RolesOfKey(arg.credits, ClaimedKey(firsts[k].person))
                 IN  /\ written[k].tag = "Credit"
                     /\ find(written[k], "Creator").text = firsts[k].person
                     /\ Len(find(written[k], "Roles").kids) = Len(mine)
                     /\ (\A i \in 1..Len(mine) : mine[i].role \in Roles)
                            => KidTexts(find(written[k], "Roles"))
                                   = [i \in 1..Len(mine) |-> mine[i].role]

C4_Witness ==
    /\ Encoded
    /\ ~fresh
    /\ arg.credits = << [person |-> "Jane Doe", role |-> "Writer"],
                        [person |-> "jane doe", role |-> "Penciller"] >>
    /\ Len(Group("Credits").kids) = 1
    /\ KidTexts(find(Group("Credits").kids[1], "Roles")) = <<"Writer", "Penciller">>

----------------------------------------------------------------------------
(* C5: the Role text written for a credit is the canonical name of a       *)
(* synonym set (Writer, Penciller, Inker, Colorist, Letterer, Cover,       *)
(* Editor, Translator) that holds the casefolded role, else the role       *)
(* unchanged when the additional roles hold it, else Other; so a role that *)
(* supports_credit_role accepts, other than "other", is not written Other. *)

RoleSets ==
    { [name |-> "Writer", synonyms |-> writer_synonyms],
      [name |-> "Penciller", synonyms |-> penciller_synonyms],
      [name |-> "Inker", synonyms |-> inker_synonyms],
      [name |-> "Colorist", synonyms |-> colorist_synonyms],
      [name |-> "Letterer", synonyms |-> letterer_synonyms],
      [name |-> "Cover", synonyms |-> cover_synonyms],
      [name |-> "Editor", synonyms |-> editor_synonyms],
      [name |-> "Translator", synonyms |-> translator_synonyms] }

ClaimedRoles(role) ==
    LET sets == {g \in RoleSets : InList(lower(role), g.synonyms)}
    IN  IF sets # {} THEN {g.name : g \in sets}
        ELSE IF InList(lower(role), ADDITIONAL_CREDITS) THEN {role}
        ELSE {"Other"}

\* the record has one credit, of a person: the Role written for it
OneCredit == Len(arg.credits) = 1 /\ arg.credits[1].person # ""
WrittenRole == find(Group("Credits").kids[1], "Roles").kids[1].text

C5_RoleClassified ==
    (Encoded /\ OneCredit) =>
        /\ WrittenRole \in ClaimedRoles(arg.credits[1].role)
        /\ (supports_credit_role(arg.credits[1].role) /\ lower(arg.credits[1].role) # "other")
               => WrittenRole # "Other"

----------------------------------------------------------------------------
(* C6: on a document that started fresh, IDS holds exactly one ID per data *)
(* origin used by the encodes so far, its text the issue id of the latest  *)
(* encode with that origin; an encode without an issue id changes none.    *)
(* idlog records, for each origin, the issue id of its latest encode.      *)

IdsOfSource(ids, source) ==
    {i \in 1..Len(ids) : DictGet(ids[i].attrib, "source", None) = source}

C6_IssueIdUpsert ==
    (fresh /\ xml # NoXml) =>
        LET ids == Group("IDS").kids
        IN  /\ Len(ids) = Cardinality(DOMAIN idlog)
            /\ \A i \in 1..Len(ids) : ids[i].tag = "ID"
            /\ \A source \in DOMAIN idlog :
                 /\ Cardinality(IdsOfSource(ids, source)) = 1
                 /\ \A i \in IdsOfSource(ids, source) : ids[i].text = idlog[source]

C6_Witness ==
    /\ fresh
    /\ Encoded
    /\ ~Truthy(arg.issue_id)
    /\ DOMAIN idlog = Sources
    /\ idlog["Metron"] = "2"
    /\ idlog["Comic Vine"] = "1"
    /\ Len(Group("IDS").kids) = 2

----------------------------------------------------------------------------
(* C7: after an encode onto a fresh or an existing document every known    *)
(* top-level child is a direct child of the root, and every group but IDS  *)
(* and LastModified holds what the record alone gives it: it is empty when *)
(* the record has no value for it, and equal to the group of the same      *)
(* record encoded onto a fresh document otherwise.                         *)

NoCredit(r) == \A i \in 1..Len(r.credits) : r.credits[i].person = ""
NoGenre(r) == r.genres = {} /\ ~(r.manga # None /\ startswith(lower(r.manga), "yes"))

NoValue(tag, r) ==
    CASE tag = "Credits" -> NoCredit(r)
      [] tag = "Series" -> ~Truthy(r.series)
      [] tag = "Number" -> ~Truthy(r.issue)
      [] tag = "Stories" -> ~Truthy(r.title)
      [] tag = "CollectionTitle" -> ~Truthy(r.title)
      [] tag = "Summary" -> ~Truthy(r.description)
      [] tag = "Notes" -> ~Truthy(r.notes)
      [] tag = "Prices" -> r.price = NoneInt
      [] tag = "GTIN" -> ~Truthy(r.identifier)
      [] tag = "Genres" -> NoGenre(r)
      [] tag = "AgeRating" -> ~Truthy(r.maturity_rating)
      [] tag = "Tags" -> r.tags = {}
      [] tag = "Arcs" -> r.story_arcs = <<>>
      [] tag = "Characters" -> r.characters = {}
      [] tag = "Teams" -> r.teams = {}
      [] tag = "Locations" -> r.locations = {}
      [] tag = "Publisher" -> ~Truthy(r.publisher)
      [] tag = "CoverDate" -> r.year = NoneInt
      [] tag = "URLs" -> r.web_links = <<>>
      [] OTHER -> FALSE

RecordGroups == Range(KnownTags) \ {"IDS", "LastModified"}

Content(e) == [text |-> e.text, attrib |-> e.attrib, kids |-> e.kids]

\* the same record encoded onto a fresh document, for each iteration order
OntoFresh(r) ==
    {_bytes_from_metadata(r, NoXml, "2024-05-01T10:00:00.000001", seed) : seed \in Seeds(r)}

C7_RewriteOnSave ==
    Encoded =>
        LET docs == OntoFresh(arg)
        IN  /\ \A tag \in Range(KnownTags) : HasChild(xml, tag)
            /\ \A tag \in RecordGroups : NoValue(tag, arg) => IsEmptyElement(Group(tag))
            /\ \A tag \in RecordGroups :
                 \E doc \in docs : Content(Group(tag)) = Content(find(doc, tag))

C7_Witness ==
    /\ Encoded
    /\ ~fresh
    /\ arg = DefaultMd
    /\ HasChild(xml, "Pages")
    /\ IsEmptyElement(Group("Genres"))
    /\ IsEmptyElement(Group("Credits"))
    /\ Len(Group("IDS").kids) = 2

----------------------------------------------------------------------------
(* C8: CoverDate of a record with a year, 0 included, is YYYY-MM-DD zero   *)
(* padded, a missing month or day taken as 1, the year moved to 20xx below *)
(* 50 and to 19xx below 100; without a year CoverDate is empty.            *)

ClaimedYear(year) ==
    IF year < 50 THEN year + 2000 ELSE IF year < 100 THEN year + 1900 ELSE year

OrOne(n) == IF n = NoneInt \/ n = 0 THEN 1 ELSE n

ClaimedDate(r) ==
    zfill(ToString(ClaimedYear(r.year)), 4) \o "-" \o zfill(ToString(OrOne(r.month)), 2)
        \o "-" \o zfill(ToString(OrOne(r.day)), 2)

C8_CoverDate ==
    Encoded =>
        IF arg.year # NoneInt
        THEN Group("CoverDate").text = ClaimedDate(arg)
        ELSE IsEmptyElement(Group("CoverDate"))

----------------------------------------------------------------------------
(* C9: decoding a record encoded onto a fresh document gives back series,  *)
(* issue, title, description, notes, publisher, imprint, genres,           *)
(* characters, teams, locations, tags and story arcs as they were.         *)

RoundTripped == op = "decode" /\ fresh

Unset(x) == x = None \/ x = ""
SameText(a, b) == (Unset(a) /\ Unset(b)) \/ a = b

Kept(x) == IF x = None \/ strip(x) = "" THEN None ELSE x

WrittenAsCollection(r) ==
    IF Truthy(r.series) /\ Truthy(r.format) THEN IsTpb(r.format)
    ELSE r.format = "Trade Paperback"

Segments(title) == SelectSeq(StripAll(split(title, ";")), LAMBDA t : t # "")

RoundTrippedTitle(r) ==
    IF ~Truthy(r.title) THEN ""
    ELSE IF WrittenAsCollection(r)
    THEN (IF strip(r.title) = "" THEN "" ELSE r.title)
    ELSE join(";", Segments(r.title))

RoundTrippedGenres(r) ==
    {capitalize(g) : g \in r.genres} \cup (IF NoGenre([r EXCEPT !.genres = {}]) THEN {} ELSE {"Manga"})

----------------------------------------------------------------------------
(* C10: an encode leaves every field of the caller's record as it was.     *)

C10_RecordUntouched == op \in {"encode", "encode_raised"} => md = arg

----------------------------------------------------------------------------
(* C13: the decoded series, volume, issue count and format come only from  *)
(* inside the Series element, and the decoded publisher and imprint only   *)
(* from inside the Publisher element; a document without the element       *)
(* leaves them unset, whatever same-named elements it holds elsewhere.     *)

Decoded == op = "decode"

\* the text of the first element with the tag below the parent, else unset
TextBelow(parent, name) ==
    IF parent = <<>> \/ find_descendant(parent[1].kids, name) = <<>> THEN None
    ELSE Kept(find_descendant(parent[1].kids, name)[1].text)

C13_ScopedLookups ==
    Decoded =>
        LET series == find_descendant(xml.kids, "Series")
            publisher == find_descendant(xml.kids, "Publisher")
        IN  /\ decoded.series = TextBelow(series, "Name")
            /\ decoded.volume = TextBelow(series, "Volume")
            /\ decoded.issue_count = TextBelow(series, "IssueCount")
            /\ decoded.format = TextBelow(series, "Format")
            /\ decoded.publisher = TextBelow(publisher, "Name")
            /\ decoded.imprint = TextBelow(publisher, "Imprint")

----------------------------------------------------------------------------
(* C14: on a document that started fresh, at most one ID of IDS has        *)
(* primary="true", and after an encode with an issue id it is the ID of    *)
(* that encode's data origin. An encode without an issue id leaves IDS as  *)
(* it was, so this covers the latest encode that carried an issue id.      *)

PrimaryIds(ids) ==
    {i \in 1..Len(ids) : DictGet(ids[i].attrib, "primary", None) = "true"}

C14_SinglePrimary ==
    (fresh /\ xml # NoXml) =>
        LET ids == Group("IDS").kids
        IN  /\ Cardinality(PrimaryIds(ids)) <= 1
            /\ (Encoded /\ Truthy(arg.issue_id)) =>
                   \A i \in PrimaryIds(ids) :
                       DictGet(ids[i].attrib, "source", None) = arg.data_origin

----------------------------------------------------------------------------
(* C11: no adapter method hands an exception to its caller, whichever      *)
(* archive call raises; and on stored bytes that are not XML or have       *)
(* another root, has_tags and remove_tags return false, read_tags the      *)
(* default record and read_raw_tags the empty string.                      *)

AdapterMethods == {"has_tags", "read_tags", "read_raw_tags", "write_tags", "remove_tags"}

C11_ErrorsContained ==
    /\ op \in AdapterMethods => ret # "raised"
    /\ (op \in {"has_tags", "remove_tags"} /\ xml \in {ComicDoc, Malformed}) => ret = "false"
    /\ (op = "read_tags" /\ xml \in {ComicDoc, Malformed})
           => (ret = "default" /\ decoded = DefaultDecoded)
    /\ (op = "read_raw_tags" /\ xml \in {ComicDoc, Malformed}) => ret = "empty"

----------------------------------------------------------------------------
(* C12: write_file is only called on an archive that supports files, and   *)
(* write_tags returns false elsewhere; remove_file is only called when the *)
(* archive supports files, lists the file and its bytes parse with root    *)
(* MetronInfo, and in every other case remove_tags returns false and       *)
(* leaves the archive as it was.                                           *)

\* the archive has tags, as the archive is before the step
HasTagsNow ==
    /\ supports
    /\ xml # NoXml
    /\ ~ParseError(xml)
    /\ fromstring(xml).tag = "MetronInfo"

MutationGated ==
    /\ (op' = "write_tags" /\ called' = "write_file") => supports
    /\ (op' = "write_tags" /\ ~supports /\ ~faulty')
           => (ret' = "false" /\ called' = "none" /\ xml' = xml)
    /\ (op' = "remove_tags" /\ called' = "remove_file") => HasTagsNow
    /\ (op' = "remove_tags" /\ ~HasTagsNow)
           => (ret' = "false" /\ called' = "none" /\ xml' = xml)

----------------------------------------------------------------------------
(* C15: when no archive call fails, the has_tags that follows a write_tags *)
(* that returned true returns true and the read_tags that follows it       *)
(* returns a record that is not empty, whatever was stored before; the     *)
(* has_tags that follows a remove_tags that returned true returns false    *)
(* and the read_tags that follows it returns the default record.           *)

WriteThenRead ==
    /\ (op = "write_tags" /\ ret = "true" /\ op' = "has_tags" /\ ~faulty') => ret' = "true"
    /\ (op = "write_tags" /\ ret = "true" /\ op' = "read_tags" /\ ~faulty')
           => (ret' = "record" /\ ~decoded'.is_empty)
    /\ (op = "remove_tags" /\ ret = "true" /\ op' = "has_tags" /\ ~faulty') => ret' = "false"
    /\ (op = "remove_tags" /\ ret = "true" /\ op' = "read_tags" /\ ~faulty')
           => (ret' = "default" /\ decoded' = DefaultDecoded)

C15_WriteThenRead == [][WriteThenRead]_vars

C15_Witness ==
    /\ op = "read_tags"
    /\ ret = "record"
    /\ arg = DefaultMd
    /\ ~decoded.is_empty
    /\ decoded.series = None
    /\ decoded.notes = None
    /\ decoded.tags = {}

====
